---- MODULE Spec2Model ----
(***************************************************************************)
(* run_scan of UsebilityTesting/app.py as a state machine.                 *)
(*                                                                         *)
(* One scan visits the URLs of `urls` in order with one browser session.   *)
(* For each URL the page is loaded and the rule blocks of the loop body    *)
(* run one after the other; each block is one action.  A driver call that  *)
(* raises moves control to the `except Exception` clause of the loop body. *)
(* After the loop the cross-page checks run and the session is closed.     *)
(*                                                                         *)
(* The loop body is modelled block by block: navigation and extraction     *)
(* (lines 176-230), the rule blocks 1) to 13) in the order of the source,  *)
(* and the except and finally clauses.  The routes url_test and html_test  *)
(* are modelled from the return of run_scan on: the report is built and    *)
(* the route answers.                                                      *)
(*                                                                         *)
(* The web is an input: web[i] is what the i-th visit finds (markup,       *)
(* timings, the answers of the linked endpoints) and the one place, if     *)
(* any, where the browser, the disk or the interpreter fails in that       *)
(* visit.                                                                  *)
(***************************************************************************)
EXTENDS Integers, Sequences, FiniteSets, TLC

VARIABLES
    urls,              \* the argument `urls` of run_scan
    web,               \* web[i]: the page the i-th visit finds
    pc,                \* position of run_scan
    idx,               \* the loop index i of `for i, link in enumerate(urls, start=1)`
    driver,            \* "none" | "open" | "closed": the browser session
    issues,            \* the list `issues`
    owner,             \* owner[k]: the loop index under which issues[k] was appended (0: after the loop)
    page_screenshots,  \* the list `page_screenshots`
    title_map,         \* the dict `title_map` (insertion-ordered)
    nav_signatures,    \* the dict `nav_signatures` (insertion-ordered)
    majority,          \* the local `majority` of the navigation check
    uuids,             \* number of uuid4() values drawn so far
    files,             \* screenshot files on disk: name, the boxes of the call's overlay and of stale overlays in it
    visits,            \* the links handed to driver.get, in order
    raisedAt,          \* <<i, point>>: the visit i raised at `point`
    exc,               \* the exception in flight (cls = "none": none)
    captures,          \* the calls of capture_rule_screenshot so far: arguments, overlay, result
    layers,            \* the '__scan_overlays__' containers in the document, in document order
    route,             \* the route that called run_scan ("none": not yet told apart)
    pdf_path,          \* what generate_pdf_report returned to the route
    response           \* what the route answered ("none": no answer yet)

vars == <<urls, web, pc, idx, driver, issues, owner, page_screenshots, title_map,
          nav_signatures, majority, uuids, files, visits, raisedAt, exc,
          captures, layers, route, pdf_path, response>>

\* The state of the route around run_scan
routeVars == <<route, pdf_path, response>>

---------------------------------------------------------------------------
(* Bounds of the model *)

\* Longest URL list of a scan under Spec
MaxPages == 2
\* Longest URL list of a scan under SpecCross
MaxCrossPages == 3
\* Longest URL list of a scan under SpecRules
MaxRulePages == 1
\* Longest URL list of a scan under SpecOrder
MaxOrderPages == 2

---------------------------------------------------------------------------
(* Program constants *)

\* `len(title) < 5`
MinTitleLen == 5
\* `[:10]` of the navigation links
MaxNavLinks == 10
\* `int(status) >= 400`
MinErrorStatus == 400
\* `dur > 3000`
SlowPageMs == 3000
\* `.slice(0,2)` of the located h1 elements
MaxH1Rects == 2
\* `len(alt.strip()) < 3`
MinAltLen == 3
\* `len(contrast_rects) >= 3`
MaxContrastRects == 3
\* `.slice(0,3)` of the elements with tabindex -1
MaxBlockedRects == 3
\* `fs < 12`, and fs = 12.0 when the font size does not parse
MinFontPx == 12

---------------------------------------------------------------------------
(* Python values *)

\* None as a screenshot name
NoShot == [uid |-> 0, key |-> "None"]

\* No exception in flight
NoExc == [cls |-> "none", msg |-> ""]

\* An empty dict
EmptyDict == [keys |-> <<>>, val |-> <<>>]

\* d[k] = v on an insertion-ordered dict: a new key goes last, an old key keeps its place
DictSet(d, k, v) ==
    [keys |-> IF k \in DOMAIN d.val THEN d.keys ELSE Append(d.keys, k),
     val  |-> [x \in (DOMAIN d.val) \cup {k} |-> IF x = k THEN v ELSE d.val[x]]]

\* list(d.values())
DictValues(d) == [n \in 1..Len(d.keys) |-> d.val[d.keys[n]]]

\* lst.count(x)
Count(lst, x) == Cardinality({n \in DOMAIN lst : lst[n] = x})

\* str.strip() on a sequence of characters
IsSpace(c) == c \in {" ", "\t", "\n"}

RECURSIVE LStrip(_)
LStrip(s) == IF s # <<>> /\ IsSpace(Head(s)) THEN LStrip(Tail(s)) ELSE s

RECURSIVE RStrip(_)
RStrip(s) ==
    IF s # <<>> /\ IsSpace(s[Len(s)]) THEN RStrip(SubSeq(s, 1, Len(s) - 1)) ELSE s

Strip(s) == RStrip(LStrip(s))

\* "|".join(texts)
RECURSIVE Join(_)
Join(texts) ==
    IF texts = <<>> THEN ""
    ELSE IF Len(texts) = 1 THEN texts[1]
    ELSE texts[1] \o "|" \o Join(Tail(texts))

\* lst[:n]
Take(lst, n) == SubSeq(lst, 1, IF Len(lst) < n THEN Len(lst) ELSE n)

\* isinstance(e, Exception): KeyboardInterrupt and SystemExit derive from
\* BaseException only and pass through `except Exception`
IsException(e) == e.cls = "Exception"

\* str.lower() on a sequence of characters
UpperCase == <<"A", "B", "C", "D", "E", "F", "G", "H", "I", "J", "K", "L", "M",
               "N", "O", "P", "Q", "R", "S", "T", "U", "V", "W", "X", "Y", "Z">>
LowerCase == <<"a", "b", "c", "d", "e", "f", "g", "h", "i", "j", "k", "l", "m",
               "n", "o", "p", "q", "r", "s", "t", "u", "v", "w", "x", "y", "z">>

LowerChar(ch) ==
    IF \E n \in DOMAIN UpperCase : UpperCase[n] = ch
    THEN LowerCase[CHOOSE n \in DOMAIN UpperCase : UpperCase[n] = ch]
    ELSE ch

str_lower(s) == [n \in DOMAIN s |-> LowerChar(s[n])]

\* os.path.basename(src): what follows the last "/"
basename(src) ==
    LET slashes == {n \in DOMAIN src : src[n] = "/"}
        last == IF slashes = {} THEN 0 ELSE CHOOSE n \in slashes : \A m \in slashes : m <= n
    IN  SubSeq(src, last + 1, Len(src))

\* Numbers with a fraction are integers in hundredths
Digits == <<"0", "1", "2", "3", "4", "5", "6", "7", "8", "9">>

IsDigit(ch) == \E n \in DOMAIN Digits : Digits[n] = ch

DigitVal(ch) == (CHOOSE n \in DOMAIN Digits : Digits[n] = ch) - 1

RECURSIVE IntVal(_)
IntVal(ds) == IF ds = <<>> THEN 0 ELSE 10 * IntVal(SubSeq(ds, 1, Len(ds) - 1)) + DigitVal(ds[Len(ds)])

\* re.sub(r'[^0-9.]+', '', s)
numeric_chars(s) == SelectSeq(s, LAMBDA ch : IsDigit(ch) \/ ch = ".")

\* float(t) for t of digits and dots: ok = FALSE where float raises ValueError;
\* val is the number in hundredths (the inputs have at most two decimals)
float(t) ==
    LET dots == {n \in DOMAIN t : t[n] = "."}
        dot == IF dots = {} THEN Len(t) + 1 ELSE CHOOSE n \in dots : TRUE
        whole == SubSeq(t, 1, dot - 1)
        frac == SubSeq(t, dot + 1, Len(t))
        cents == SubSeq(frac \o <<"0", "0">>, 1, 2)
        ok == Cardinality(dots) <= 1 /\ whole \o frac # <<>>
    IN  [ok |-> ok, val |-> IF ok THEN 100 * IntVal(whole) + IntVal(cents) ELSE 0]

\* parse_rgb(s): the three channels of 'rgb(r, g, b)' or 'rgba(r, g, b, a)',
\* (0,0,0) for an empty string and for a string the pattern does not match
parse_rgb(s) ==
    CASE s = "rgb(0, 0, 0)" -> <<0, 0, 0>>
      [] s = "rgb(255, 255, 255)" -> <<255, 255, 255>>
      [] s = "rgb(119, 119, 119)" -> <<119, 119, 119>>
      [] s = "rgba(118, 118, 118, 1)" -> <<118, 118, 118>>
      [] s = "rgb(255, 0, 0)" -> <<255, 0, 0>>
      [] OTHER -> <<0, 0, 0>>

\* channel(c) of relative_luminance in ten-thousandths, for the channel values of
\* the model: c/255/12.92 up to 0.03928, ((c/255 + 0.055)/1.055) ** 2.4 above
channel(ch) ==
    CASE ch = 0 -> 0
      [] ch = 118 -> 1812
      [] ch = 119 -> 1845
      [] ch = 255 -> 10000

\* relative_luminance(rgb), in ten-thousandths
relative_luminance(rgb) ==
    (2126 * channel(rgb[1]) + 7152 * channel(rgb[2]) + 722 * channel(rgb[3])) \div 10000

\* The quotient with the operands in the order given: (L(fg) + 0.05) / (L(bg) + 0.05)
contrast_ratio_as_given(fg, bg) ==
    [num |-> relative_luminance(fg) + 500, den |-> relative_luminance(bg) + 500]

\* contrast_ratio(fg, bg) as the fraction num/den: the lighter of the two
\* luminances over the darker, each plus 0.05
contrast_ratio(fg, bg) ==
    LET a == relative_luminance(fg)
        b == relative_luminance(bg)
        L1 == IF a >= b THEN a ELSE b
        L2 == IF a >= b THEN b ELSE a
    IN  [num |-> L1 + 500, den |-> L2 + 500]

\* "".join(chars)
RECURSIVE JoinChars(_)
JoinChars(chars) == IF chars = <<>> THEN "" ELSE Head(chars) \o JoinChars(Tail(chars))

\* The least element of a set of positions, 0 for the empty set
FirstOf(S) == IF S = {} THEN 0 ELSE CHOOSE n \in S : \A m \in S : n <= m

\* f"{x}" of a float given in hundredths
float_repr(val) ==
    LET cents == val % 100
    IN  ToString(val \div 100) \o "." \o
        (IF cents % 10 = 0 THEN ToString(cents \div 10)
         ELSE (IF cents < 10 THEN "0" ELSE "") \o ToString(cents))

\* f"{ratio:.2f}"
two_decimals(ratio) ==
    LET h == (200 * ratio.num + ratio.den) \div (2 * ratio.den)
        cents == h % 100
    IN  ToString(h \div 100) \o "." \o (IF cents < 10 THEN "0" ELSE "") \o ToString(cents)

---------------------------------------------------------------------------
(* The scan context: the part of the state a rule block reads and writes *)

Ctx == [issues |-> issues, owner |-> owner, uuids |-> uuids, files |-> files,
        captures |-> captures, layers |-> layers, ret |-> NoShot, raised |-> NoExc]

\* The exception a failing driver call raises at `point`
RaiseAt(c, point) ==
    [c EXCEPT !.raised = [cls |-> "Exception", msg |-> "Message: " \o point]]

\* The banner capture_rule_screenshot draws when it is given no rects
Banner(label_text) ==
    [left |-> 10, top |-> 10, width |-> 300, height |-> 30, label |-> label_text]

\* The rects with the label applied and no banner in place of an empty list
OverlayRects_without_banner(rects, label_text) ==
    IF label_text # ""
    THEN [n \in DOMAIN rects |-> [rects[n] EXCEPT !.label = label_text]]
    ELSE rects

\* The rects capture_rule_screenshot hands to the overlay script
OverlayRects(rects, label_text) ==
    LET withBanner == IF rects = <<>> /\ label_text # ""
                      THEN <<Banner(label_text)>> ELSE rects
    IN  IF label_text # ""
        THEN [n \in DOMAIN withBanner |-> [withBanner[n] EXCEPT !.label = label_text]]
        ELSE withBanner

\* The overlay script of lines 119-158 succeeds unless the browser fails there
InjectOk(rule_key, p) == p.fault # "inject_" \o rule_key

\* driver.save_screenshot of a rule screenshot succeeds unless the disk fails there
SaveOk(rule_key, p) == p.fault # "save_" \o rule_key

\* The clean-up script of line 169 succeeds unless the browser fails there
RemoveOk(rule_key, p) == p.fault # "remove_" \o rule_key

\* The boxes of the containers of a document, in document order
RECURSIVE Boxes(_)
Boxes(containers) ==
    IF containers = <<>> THEN <<>> ELSE Head(containers) \o Boxes(Tail(containers))

\* document.getElementById('__scan_overlays__').remove(): of several
\* elements with one id the first in document order is the one found
remove_overlay(containers) ==
    IF containers = <<>> THEN <<>> ELSE Tail(containers)

\* capture_rule_screenshot(rects, rule_key, label_text): the overlay is
\* injected, the screenshot taken, the overlay removed, each in its own
\* try; fname is returned whether or not the file was written
capture_rule_screenshot(c, rects, rule_key, label_text, p) ==
    LET fname == [uid |-> c.uuids + 1, key |-> rule_key]
        shown == OverlayRects(rects, label_text)
        injected == InjectOk(rule_key, p)
        inDoc == IF injected THEN Append(c.layers, shown) ELSE c.layers
        saved == SaveOk(rule_key, p)
        removed == RemoveOk(rule_key, p)
        left == IF removed THEN remove_overlay(inDoc) ELSE inDoc
    IN  [c EXCEPT !.uuids = c.uuids + 1,
                  !.files = IF saved
                            THEN c.files \cup
                                 {[name |-> fname,
                                   overlays |-> IF injected THEN shown ELSE <<>>,
                                   stale |-> Boxes(c.layers)]}
                            ELSE c.files,
                  !.layers = left,
                  !.captures = Append(c.captures,
                                   [rects |-> rects, rule_key |-> rule_key,
                                    label_text |-> label_text, overlay |-> shown,
                                    injected |-> injected, saved |-> saved,
                                    removed |-> removed, left |-> left,
                                    ret |-> fname]),
                  !.ret = fname]

\* The place of a severity in a report sorted by severity
SeverityRank(severity) ==
    CASE severity = "High" -> 1
      [] severity = "Medium" -> 2
      [] OTHER -> 3

\* The finding put after the findings at least as severe, not at the end
Append_issue_by_severity(c, i, issue_name, desc, severity, shot) ==
    LET n == Cardinality({k \in DOMAIN c.issues :
                 SeverityRank(c.issues[k].severity) <= SeverityRank(severity)})
        row == [issue_name |-> issue_name, link |-> urls[i], desc |-> desc,
                severity |-> severity, shot_name |-> shot]
    IN  [c EXCEPT !.issues = SubSeq(c.issues, 1, n) \o <<row>>
                             \o SubSeq(c.issues, n + 1, Len(c.issues)),
                  !.owner = SubSeq(c.owner, 1, n) \o <<i>>
                            \o SubSeq(c.owner, n + 1, Len(c.owner))]

\* issues.append([issue_name, link, desc, severity, shot])
Append_issue(c, i, issue_name, desc, severity, shot) ==
    [c EXCEPT !.issues = Append(c.issues,
                  [issue_name |-> issue_name, link |-> urls[i], desc |-> desc,
                   severity |-> severity, shot_name |-> shot]),
              !.owner = Append(c.owner, i)]

\* shot = capture_rule_screenshot(...); issues.append([..., shot])
Fire(c, i, issue_name, desc, severity, rects, rule_key, label_text, p) ==
    LET c1 == capture_rule_screenshot(c, rects, rule_key, label_text, p)
    IN  Append_issue(c1, i, issue_name, desc, severity, c1.ret)

\* The rect a locating script returns for the n-th element of its kind
ElemRect(n, label) ==
    [left |-> 8, top |-> 40 * n, width |-> 300, height |-> 30, label |-> label]

---------------------------------------------------------------------------
(* The web: what a visit can find *)

\* <title> of the parsed markup: present = FALSE when soup.title or
\* soup.title.string is None
NoTitle == [present |-> FALSE, str |-> <<>>]
TitleOf(chars) == [present |-> TRUE, str |-> chars]

\* An anchor: its href ("" when missing), its visible text, and what the
\* endpoint of its resolved URL answers (0: no answer within the timeout)
Anchor(href, text, answer) == [href |-> href, text |-> text, answer |-> answer]

NavX == <<"Home", "About">>
NavY == <<"Home", "Blog">>
NavZ == <<"Start">>
Nav10 == <<"a", "b", "c", "d", "e", "f", "g", "h", "i", "j">>
Nav11 == Nav10 \o <<"k">>

\* An attribute of a tag: present = FALSE when the tag does not carry it
NoAttr == [present |-> FALSE, str |-> <<>>]
AttrOf(chars) == [present |-> TRUE, str |-> chars]

\* An <img>: its alt, its src (<<>> when missing), and what the endpoint of
\* its resolved src answers (0: no answer within the timeout)
Img(alt, src, answer) == [alt |-> alt, src |-> src, answer |-> answer]

\* An entry of style_results: the computed styles of one text element
Sample(text, color, bg, fontSize, lineHeight) ==
    [text |-> text, color |-> color, bg |-> bg, fontSize |-> fontSize,
     lineHeight |-> lineHeight]

\* A form control: its tag, whether it carries a name attribute, its id
\* ("" when missing), whether some <label for> names the id, whether a
\* <label> wraps it
Control(tag, named, id, labelFor, wrapped) ==
    [tag |-> tag, named |-> named, id |-> id, labelFor |-> labelFor,
     wrapped |-> wrapped]

AltTeam ==
    AttrOf(<<"T", "e", "a", "m", " ", "p", "h", "o", "t", "o", " ", "f", "r", "o", "m",
             " ", "2", "0", "2", "3", " ", "o", "f", "f", "s", "i", "t", "e">>)
SrcTeam == <<"i", "m", "g", "/", "t", ".", "p", "n", "g">>

Black == "rgb(0, 0, 0)"
White == "rgb(255, 255, 255)"
Grey119 == "rgb(119, 119, 119)"
Grey118 == "rgba(118, 118, 118, 1)"

Px16 == <<"1", "6", "p", "x">>
Px24 == <<"2", "4", "p", "x">>

\* A page on which no rule but the line-spacing rule fires and nothing fails
BasePage ==
    [title   |-> TitleOf(<<"A", "b", "o", "u", "t", " ", "u", "s">>),
     levels  |-> <<1, 2>>,
     imgs    |-> <<Img(AltTeam, SrcTeam, 200)>>,
     viewport_meta |-> TRUE,
     mq_count |-> 2,
     anchors |-> <<Anchor("a.html", "Pricing", 200)>>,
     styles  |-> <<Sample("Pricing", Black, White, Px16, Px24)>>,
     tabbables |-> 1,
     blocked |-> 0,
     forms   |-> <<>>,
     nav     |-> <<>>,
     feedback |-> TRUE,
     dur     |-> 3000,
     fault   |-> "none"]

TitleCases ==
    {NoTitle,
     TitleOf(<<" ", "\n">>),
     TitleOf(<<" ", "H", "i", " ">>),
     TitleOf(<<"H", "o", "m", "e", " ">>),
     TitleOf(<<"H", "o", "m", "e", "s">>)}

LevelCases == {<<>>, <<1, 1, 1>>, <<1, 3>>}

AnchorCases ==
    {<<Anchor("#", "Top", 200)>>,
     <<Anchor("b.html", "Click Here", 200)>>,
     <<Anchor("gone.html", "Old page", 404)>>,
     <<Anchor("slow.html", "Archive", 0)>>,
     <<Anchor("a.html", "Pricing", 200), Anchor("err.html", "Status", 500)>>}

NavCases == {NavX, Nav10, Nav11}

\* Pages that fail at one place, each with the content that reaches the place
FaultCases ==
    {[BasePage EXCEPT !.fault = "get"],
     [BasePage EXCEPT !.fault = "interrupt"],
     [BasePage EXCEPT !.fault = "save_page"],
     [BasePage EXCEPT !.fault = "page_source"],
     [BasePage EXCEPT !.fault = "save_title", !.title = NoTitle],
     [BasePage EXCEPT !.fault = "locate_h1", !.levels = <<1, 1>>],
     [BasePage EXCEPT !.fault = "save_links",
                      !.anchors = <<Anchor("gone.html", "Old page", 404)>>],
     [BasePage EXCEPT !.fault = "locate_dead_link",
                      !.anchors = <<Anchor("slow.html", "Archive", 0)>>],
     [BasePage EXCEPT !.fault = "locate_link_text",
                      !.anchors = <<Anchor("b.html", "Click Here", 200)>>],
     [BasePage EXCEPT !.fault = "perf", !.nav = NavX]}

\* The pages of Spec: BasePage, its title varied, and the pages that fail
Pages ==
    {BasePage}
    \cup {[BasePage EXCEPT !.title = t] : t \in TitleCases}
    \cup FaultCases

\* The pages of SpecCross: titles and navigation varied together
CrossPage(t, n, f) == [BasePage EXCEPT !.title = t, !.nav = n, !.fault = f]

TitleA == BasePage.title
TitleB == TitleOf(<<"C", "o", "n", "t", "a", "c", "t">>)

CrossPages ==
    {CrossPage(TitleA, NavX, "none"),
     CrossPage(TitleA, NavY, "none"),
     CrossPage(TitleB, NavZ, "none"),
     CrossPage(NoTitle, <<>>, "none"),
     CrossPage(TitleA, NavX, "perf"),
     CrossPage(TitleA, NavX, "get"),
     CrossPage(TitleB, NavY, "interrupt")}

\* The pages of SpecRules: BasePage, varied one rule block at a time
ImgCases ==
    {<<Img(NoAttr, SrcTeam, 200)>>,
     <<Img(AttrOf(<<>>), SrcTeam, 200)>>,
     <<Img(AttrOf(<<" ", "a", "b", " ">>), SrcTeam, 200)>>,
     <<Img(AttrOf(<<"a", "b", "c">>), SrcTeam, 200)>>,
     <<Img(AttrOf(<<"P", "h", "o", "t", "o">>), SrcTeam, 200)>>,
     <<Img(AttrOf(<<"i", "m", "a", "g", "e", " ">>), SrcTeam, 200)>>,
     <<Img(AttrOf(<<"P", "I", "C", "T", "U", "R", "E">>), SrcTeam, 200)>>,
     <<Img(AttrOf(<<"T", ".", "p", "n", "g">>), SrcTeam, 200)>>,
     <<Img(AltTeam, SrcTeam, 200), Img(AttrOf(<<"p", "h", "o", "t", "o">>), SrcTeam, 200)>>,
     <<Img(AltTeam, <<>>, 0), Img(AltTeam, SrcTeam, 404)>>,
     <<Img(AltTeam, SrcTeam, 0)>>,
     <<>>}

Px11 == <<"1", "1", "p", "x">>
Normal == <<"n", "o", "r", "m", "a", "l">>

StyleCases ==
    {<<>>,
     <<Sample("Pricing", Grey119, White, Px16, <<"0", "p", "x">>)>>,
     <<Sample("Pricing", White, Grey119, Px16, <<"0", "p", "x">>)>>,
     <<Sample("Pricing", Grey118, White, Px16, Px24)>>,
     <<Sample("Pricing", "", White, Px16, Normal)>>,
     <<Sample("a", Black, White, Px16, Px24), Sample("b", Grey119, White, Px16, Px24),
       Sample("c", "rgb(255, 0, 0)", White, Px16, Px24), Sample("d", White, White, Px16, Px24),
       Sample("e", Black, Black, Px16, Px24)>>,
     <<Sample("Pricing", Black, White, Px11, Px24)>>,
     <<Sample("Pricing", Black, White, <<"1", "1", ".", "5", "p", "x">>, Px16)>>,
     <<Sample("Pricing", Black, White, <<"m", "e", "d", "i", "u", "m">>, Normal)>>,
     <<Sample("Pricing", Black, White, Px16, <<"1", "9", ".", "2", "p", "x">>)>>,
     <<Sample("Pricing", Black, White, Px16, Px16)>>,
     <<Sample("Pricing", Black, White, Px16, <<"0", "p", "x">>),
       Sample("Fine print", Black, White, Px11, Px16)>>,
     <<Sample("Pricing", Black, White, Px11, Px16),
       Sample("Terms", Black, White, Px16, Px16)>>,
     <<Sample("Pricing", Black, White, Px16, Px16),
       Sample("Fine print", Black, White, Px11, Px16)>>}

FormCases ==
    {<<<<Control("input", TRUE, "email", TRUE, FALSE)>>>>,
     <<<<Control("input", TRUE, "", FALSE, TRUE)>>>>,
     <<<<Control("input", TRUE, "email", FALSE, FALSE)>>>>,
     <<<<Control("input", FALSE, "", FALSE, TRUE),
         Control("select", TRUE, "", FALSE, FALSE),
         Control("textarea", FALSE, "", FALSE, FALSE)>>>>,
     <<<<Control("input", TRUE, "q", FALSE, FALSE)>>,
       <<Control("input", TRUE, "email", TRUE, FALSE)>>,
       <<Control("select", TRUE, "", FALSE, FALSE)>>>>}

RuleAnchorCases ==
    AnchorCases
    \cup {<<Anchor("b.html", "Click Here", 200), Anchor("c.html", "MORE", 200)>>,
          <<Anchor("", "Top", 200), Anchor("c.html", "here", 200),
            Anchor("gone.html", "Old page", 404)>>,
          <<Anchor("slow.html", "more", 0)>>,
          <<>>}

RuleFaultCases ==
    {[BasePage EXCEPT !.fault = "get"],
     [BasePage EXCEPT !.fault = "interrupt"],
     [BasePage EXCEPT !.fault = "locate_h1", !.levels = <<1, 1>>],
     [BasePage EXCEPT !.fault = "locate_alt",
                      !.imgs = <<Img(AttrOf(<<"p", "h", "o", "t", "o">>), SrcTeam, 200)>>],
     [BasePage EXCEPT !.fault = "mq_count", !.viewport_meta = FALSE],
     [BasePage EXCEPT !.fault = "locate_dead_link",
                      !.anchors = <<Anchor("slow.html", "Archive", 0)>>],
     [BasePage EXCEPT !.fault = "locate_link_text",
                      !.anchors = <<Anchor("b.html", "Click Here", 200)>>],
     [BasePage EXCEPT !.fault = "kb", !.tabbables = 0],
     [BasePage EXCEPT !.fault = "locate_blocked", !.blocked = 1],
     [BasePage EXCEPT !.fault = "locate_form",
                      !.forms = <<<<Control("input", TRUE, "", FALSE, FALSE)>>>>],
     [BasePage EXCEPT !.fault = "locate_form_by_id",
                      !.forms = <<<<Control("input", TRUE, "q", FALSE, FALSE)>>>>],
     [BasePage EXCEPT !.fault = "locate_img", !.imgs = <<Img(AltTeam, SrcTeam, 404)>>],
     [BasePage EXCEPT !.fault = "save_feedback", !.feedback = FALSE],
     [BasePage EXCEPT !.fault = "inject_title", !.title = NoTitle],
     [BasePage EXCEPT !.fault = "remove_title", !.title = NoTitle],
     [BasePage EXCEPT !.fault = "remove_feedback", !.feedback = FALSE]}

\* The pages of SpecOrder: pages with several findings of mixed severity,
\* a shared title, two navigation bars and visits that raise
OrderPages ==
    {BasePage,
     [BasePage EXCEPT !.nav = NavX, !.levels = <<1, 1>>,
                      !.anchors = <<Anchor("b.html", "Click Here", 200),
                                    Anchor("", "Top", 200)>>],
     [BasePage EXCEPT !.title = NoTitle, !.nav = NavX, !.dur = 3001,
                      !.imgs = <<Img(AltTeam, SrcTeam, 404)>>],
     [BasePage EXCEPT !.nav = NavY, !.feedback = FALSE, !.fault = "perf"],
     [BasePage EXCEPT !.title = NoTitle, !.fault = "interrupt"]}

RulePages ==
    {BasePage}
    \cup {[BasePage EXCEPT !.title = NoTitle, !.levels = <<>>, !.dur = 3001]}
    \cup {[BasePage EXCEPT !.levels = l] : l \in LevelCases}
    \cup {[BasePage EXCEPT !.nav = n] : n \in NavCases}
    \cup {[BasePage EXCEPT !.dur = 3001]}
    \cup {[BasePage EXCEPT !.imgs = x] : x \in ImgCases}
    \cup {[BasePage EXCEPT !.viewport_meta = FALSE],
          [BasePage EXCEPT !.mq_count = 0],
          [BasePage EXCEPT !.viewport_meta = FALSE, !.mq_count = 0]}
    \cup {[BasePage EXCEPT !.anchors = a] : a \in RuleAnchorCases}
    \cup {[BasePage EXCEPT !.styles = x] : x \in StyleCases}
    \cup {[BasePage EXCEPT !.tabbables = 0],
          [BasePage EXCEPT !.blocked = 4],
          [BasePage EXCEPT !.tabbables = 0, !.blocked = 1]}
    \cup {[BasePage EXCEPT !.forms = f] : f \in FormCases}
    \cup {[BasePage EXCEPT !.feedback = FALSE]}
    \cup RuleFaultCases

\* The directory all pages of the model live in
SiteRoot == "http://site/"

\* The k-th URL
Url(k) == SiteRoot \o "p" \o ToString(k)

\* URL lists up to renaming of the URLs: the first URL is Url(1), and each
\* later one repeats an earlier URL or is the next new one
UrlShapes(n) ==
    {s \in [1..n -> 1..n] :
        /\ s[1] = 1
        /\ \A k \in 2..n : \E j \in 1..(k - 1) : s[k] <= s[j] + 1}

UrlLists(maxLen) ==
    UNION {{[k \in 1..n |-> Url(s[k])] : s \in UrlShapes(n)} : n \in 1..maxLen}

---------------------------------------------------------------------------
(* The state at the call of run_scan *)

InitWith(lists, pages) ==
    /\ urls \in lists
    /\ web \in [1..Len(urls) -> pages]
    /\ pc = "start"
    /\ idx = 0
    /\ driver = "none"
    /\ issues = <<>>
    /\ owner = <<>>
    /\ page_screenshots = <<>>
    /\ title_map = EmptyDict
    /\ nav_signatures = EmptyDict
    /\ majority = ""
    /\ uuids = 0
    /\ files = {}
    /\ visits = <<>>
    /\ raisedAt = {}
    /\ exc = NoExc
    /\ captures = <<>>
    /\ layers = <<>>
    /\ route = "none"
    /\ pdf_path = "none"
    /\ response = "none"

Init == InitWith(UrlLists(MaxPages), Pages)

InitRules == InitWith(UrlLists(MaxRulePages), RulePages)

InitCross == InitWith(UrlLists(MaxCrossPages), CrossPages)

InitOrder == InitWith(UrlLists(MaxOrderPages), OrderPages)

---------------------------------------------------------------------------
(* Control of the loop *)

\* The context a rule block leaves becomes the state
Commit(c) ==
    /\ issues' = c.issues
    /\ owner' = c.owner
    /\ uuids' = c.uuids
    /\ files' = c.files
    /\ captures' = c.captures
    /\ layers' = c.layers

\* After a rule block: on to the next block, or to the except clause
Continue(c, nextpc) ==
    IF c.raised = NoExc
    THEN /\ pc' = nextpc
         /\ UNCHANGED <<exc, raisedAt>>
    ELSE /\ pc' = "except"
         /\ exc' = c.raised
         /\ raisedAt' = raisedAt \cup {<<idx, web[idx].fault>>}

\* The loop goes on with the next URL, or ends
NextIteration ==
    IF idx < Len(urls)
    THEN /\ pc' = "load"
         /\ idx' = idx + 1
    ELSE /\ pc' = "aggregate"
         /\ idx' = idx

---------------------------------------------------------------------------
(* run_scan, lines 74-88: the session is created *)

StartScan ==
    /\ pc = "start"
    /\ \E created \in BOOLEAN :
          IF created
          THEN /\ driver' = "open"
               /\ pc' = "load"
               /\ idx' = 1
               /\ exc' = exc
          ELSE /\ driver' = "none"
               /\ pc' = "raised"
               /\ idx' = idx
               /\ exc' = [cls |-> "Exception", msg |-> "Message: session not created"]
    /\ UNCHANGED <<urls, web, issues, owner, page_screenshots, title_map,
                   nav_signatures, majority, uuids, files, visits, raisedAt,
                   captures, layers, routeVars>>

---------------------------------------------------------------------------
(* Lines 176-230: navigation, the page screenshot, the markup, the styles *)

\* What the statements of lines 176-230 leave, given the page's fault
load_page(link, p) ==
    LET page_shot_name == [uid |-> uuids + 1, key |-> "page"]
        saved == p.fault # "save_page"
    IN  IF p.fault = "get"
        THEN [uuids |-> uuids, files |-> files, shots |-> page_screenshots,
              raised |-> [cls |-> "Exception", msg |-> "Message: get"]]
        ELSE IF p.fault = "interrupt"
        THEN [uuids |-> uuids, files |-> files, shots |-> page_screenshots,
              raised |-> [cls |-> "KeyboardInterrupt", msg |-> ""]]
        ELSE [uuids |-> uuids + 1,
              files |-> IF saved
                        THEN files \cup {[name |-> page_shot_name, overlays |-> <<>>,
                                          stale |-> <<>>]}
                        ELSE files,
              shots |-> IF saved
                        THEN Append(page_screenshots, <<link, page_shot_name>>)
                        ELSE page_screenshots,
              raised |-> IF p.fault \in {"page_source", "style"}
                         THEN [cls |-> "Exception", msg |-> "Message: " \o p.fault]
                         ELSE NoExc]

LoadPage ==
    /\ pc = "load"
    /\ LET r == load_page(urls[idx], web[idx])
       IN  /\ visits' = Append(visits, urls[idx])
           /\ uuids' = r.uuids
           /\ files' = r.files
           /\ page_screenshots' = r.shots
           /\ layers' = IF web[idx].fault \in {"get", "interrupt"} THEN layers ELSE <<>>
           /\ Continue(r, "title")
    /\ UNCHANGED <<urls, web, idx, driver, issues, owner, title_map,
                   nav_signatures, majority, captures, routeVars>>

---------------------------------------------------------------------------
(* Lines 232-237: 1) page titles *)

\* title = soup.title.string.strip() if soup.title and soup.title.string else ""
page_title(p) == IF p.title.present /\ p.title.str # <<>> THEN Strip(p.title.str) ELSE <<>>

\* The title test with the bound taken inclusively: len(title) <= 5
title_not_descriptive_inclusive(title) == title = <<>> \/ Len(title) <= MinTitleLen

\* not title or len(title) < 5
title_not_descriptive(title) == title = <<>> \/ Len(title) < MinTitleLen

rule_title(c, i, p) ==
    IF title_not_descriptive(page_title(p))
    THEN Fire(c, i, "Page title not descriptive",
              <<"Provide a unique, descriptive <title> of at least 5 characters.">>,
              "High", <<>>, "title", "Page title", p)
    ELSE c

RuleTitle ==
    /\ pc = "title"
    /\ LET c == rule_title(Ctx, idx, web[idx])
       IN  /\ Commit(c)
           /\ Continue(c, "headings")
    /\ title_map' = DictSet(title_map, urls[idx], page_title(web[idx]))
    /\ UNCHANGED <<urls, web, idx, driver, page_screenshots, nav_signatures,
                   majority, visits, routeVars>>

---------------------------------------------------------------------------
(* Lines 239-264: 2) headings hierarchy *)

\* Index of the first heading that skips a level, 0 when none does
first_skip(levels) ==
    LET skips == {k \in 2..Len(levels) : levels[k] - levels[k - 1] > 1}
    IN  IF skips = {} THEN 0 ELSE CHOOSE k \in skips : \A j \in skips : k <= j

\* not any(l==1 for l in levels)
missing_h1(levels) == Count(levels, 1) = 0

\* levels.count(1) > 1
multiple_h1(levels) == Count(levels, 1) > 1

rule_headings(c, i, p) ==
    LET levels == p.levels
        c1 == IF missing_h1(levels)
              THEN Fire(c, i, "Missing H1 heading",
                        <<"Include a single, clear <h1> per page.">>,
                        "Medium", <<>>, "headings", "Missing H1", p)
              ELSE c
        mh == Take([n \in 1..Count(levels, 1) |-> ElemRect(n, "Multiple H1")], MaxH1Rects)
        c2 == IF multiple_h1(levels)
              THEN IF p.fault = "locate_h1"
                   THEN RaiseAt(c1, "locate_h1")
                   ELSE Fire(c1, i, "Multiple H1 headings",
                             <<"Use only one <h1> to anchor page structure.">>,
                             "Low", mh, "headings", "Multiple H1", p)
              ELSE c1
        k == first_skip(levels)
    IN  IF c2.raised # NoExc \/ k = 0
        THEN c2
        ELSE IF p.fault = "locate_skip"
        THEN RaiseAt(c2, "locate_skip")
        ELSE Fire(c2, i, "Heading level skips",
                  <<"Use hierarchical headings without skipping levels (e.g., h2 then h3).">>,
                  "Low", <<ElemRect(k, "Heading skip")>>, "headings", "Heading skip", p)

RuleHeadings ==
    /\ pc = "headings"
    /\ LET c == rule_headings(Ctx, idx, web[idx])
       IN  /\ Commit(c)
           /\ Continue(c, "alt")
    /\ UNCHANGED <<urls, web, idx, driver, page_screenshots, title_map,
                   nav_signatures, majority, visits, routeVars>>

---------------------------------------------------------------------------
(* Lines 266-280: 3) alternative text *)

GenericAlts ==
    {<<"i", "m", "a", "g", "e">>, <<"p", "h", "o", "t", "o">>,
     <<"p", "i", "c", "t", "u", "r", "e">>}

\* not alt or len(alt.strip()) < 3 or alt.strip().lower() in {...}
\* or alt.strip().lower() == fname.lower()
alt_not_meaningful(img) ==
    LET alt == Strip(img.alt.str)
    IN  \/ ~img.alt.present
        \/ img.alt.str = <<>>
        \/ Len(alt) < MinAltLen
        \/ str_lower(alt) \in GenericAlts
        \/ str_lower(alt) = str_lower(basename(img.src))

\* The locating script of the alt rule: the first image whose alt is
\* missing or shorter than 3 once trimmed, null when there is none
alt_located(imgs) ==
    LET n == FirstOf({m \in DOMAIN imgs :
                         \/ ~imgs[m].alt.present
                         \/ imgs[m].alt.str = <<>>
                         \/ Len(Strip(imgs[m].alt.str)) < MinAltLen})
    IN  IF n = 0 THEN <<>> ELSE <<ElemRect(n, "Alt missing")>>

rule_alt(c, i, p) ==
    IF FirstOf({n \in DOMAIN p.imgs : alt_not_meaningful(p.imgs[n])}) = 0
    THEN c
    ELSE IF p.fault = "locate_alt"
    THEN RaiseAt(c, "locate_alt")
    ELSE Fire(c, i, "Image alt text not meaningful",
              <<"Provide descriptive alt text (>=3 chars, not generic or filename).">>,
              "High", alt_located(p.imgs), "alt", "Alt missing", p)

RuleAlt ==
    /\ pc = "alt"
    /\ LET c == rule_alt(Ctx, idx, web[idx])
       IN  /\ Commit(c)
           /\ Continue(c, "viewport")
    /\ UNCHANGED <<urls, web, idx, driver, page_screenshots, title_map,
                   nav_signatures, majority, visits, routeVars>>

---------------------------------------------------------------------------
(* Lines 282-295: 4) mobile responsiveness *)

rule_viewport(c, i, p) ==
    IF p.fault = "mq_count"
    THEN RaiseAt(c, "mq_count")
    ELSE
    LET c1 == IF ~p.viewport_meta
              THEN Fire(c, i, "Missing viewport meta",
                        <<"Add <meta name='viewport' content='width=device-width, initial-scale=1.0'>.">>,
                        "Medium", <<>>, "viewport", "Viewport meta missing", p)
              ELSE c
    IN  IF p.mq_count = 0
        THEN Fire(c1, i, "No responsive media queries",
                  <<"Add CSS media queries to adapt layout across devices.">>,
                  "Low", <<>>, "viewport", "No media queries", p)
        ELSE c1

RuleViewport ==
    /\ pc = "viewport"
    /\ LET c == rule_viewport(Ctx, idx, web[idx])
       IN  /\ Commit(c)
           /\ Continue(c, "links")
    /\ UNCHANGED <<urls, web, idx, driver, page_screenshots, title_map,
                   nav_signatures, majority, visits, routeVars>>

---------------------------------------------------------------------------
(* Lines 297-347: 5) link integrity and broken links *)

\* str.lower() on the link texts of the model
Lower(text) ==
    CASE text = "Click Here" -> "click here"
      [] text = "MORE" -> "more"
      [] OTHER -> text

GenericLinkTexts == {"click here", "here", "read more", "learn more", "more"}

\* not href or href in {"#", "", "javascript:void(0)"}
empty_href(href) == href \in {"", "#", "javascript:void(0)"}

\* urljoin(link, href) for a relative href and a page of SiteRoot
urljoin(link, href) == SiteRoot \o href

\* urlopen(req, timeout=5) on an endpoint answering `answer`: the default
\* opener raises HTTPError for every answer outside 2xx, URLError or a
\* timeout when there is no answer; otherwise resp.status is the answer
urlopen(answer) ==
    [raised |-> answer = 0 \/ answer < 200 \/ answer > 299, status |-> answer]

\* The first anchor the locating script of the dead-link check matches
first_with_href(anchors, href) ==
    CHOOSE k \in DOMAIN anchors :
        /\ anchors[k].href = href
        /\ \A j \in DOMAIN anchors : anchors[j].href = href => k <= j

\* f"Link returns HTTP {status}: {abs_url}"
http_desc(status, abs_url) == <<"Link returns HTTP ", ToString(status), ": ", abs_url>>

\* f"Failed to open: {href}"
failed_desc(href) == <<"Failed to open: ", href>>

\* The body of `for a in anchors`, from the k-th anchor on
RECURSIVE scan_anchors(_, _, _, _)
scan_anchors(c, i, p, k) ==
    IF k > Len(p.anchors)
    THEN c
    ELSE
    LET a == p.anchors[k]
        a_rect == <<ElemRect(first_with_href(p.anchors, a.href), "Broken link")>>
        c1 == IF a.text # "" /\ Lower(a.text) \in GenericLinkTexts
              THEN IF p.fault = "locate_link_text"
                   THEN c
                   ELSE Fire(c, i, "Link text not descriptive",
                             <<"Use descriptive link text instead of '", a.text, "'.">>,
                             "Low", <<ElemRect(k, "Link text")>>, "links", "Link text", p)
              ELSE c
        resp == urlopen(a.answer)
        to_except == \/ resp.raised
                     \/ resp.status >= MinErrorStatus /\ p.fault = "locate_dead_status"
    IN  IF empty_href(a.href)
        THEN IF p.fault = "locate_empty_link"
             THEN RaiseAt(c, "locate_empty_link")
             ELSE Fire(c, i, "Empty or broken link",
                       <<"Provide valid href and meaningful link text.">>,
                       "Medium", <<ElemRect(k, "Broken link")>>, "links", "Broken link", p)
        ELSE IF to_except
        THEN IF p.fault = "locate_dead_link"
             THEN RaiseAt(c1, "locate_dead_link")
             ELSE Fire(c1, i, "Broken link detected", failed_desc(a.href),
                       "High", a_rect, "links", "Broken link", p)
        ELSE IF resp.status >= MinErrorStatus
        THEN Fire(c1, i, "Broken link detected",
                  http_desc(resp.status, urljoin(urls[i], a.href)),
                  "High", a_rect, "links", "Broken link", p)
        ELSE scan_anchors(c1, i, p, k + 1)

RuleLinks ==
    /\ pc = "links"
    /\ LET c == scan_anchors(Ctx, idx, web[idx], 1)
       IN  /\ Commit(c)
           /\ Continue(c, "contrast")
    /\ UNCHANGED <<urls, web, idx, driver, page_screenshots, title_map,
                   nav_signatures, majority, visits, routeVars>>

---------------------------------------------------------------------------
(* Lines 349-370: 6) colour contrast *)

\* contrast_ratio(fg, bg) of an entry of style_results
item_ratio(item) == contrast_ratio(parse_rgb(item.color), parse_rgb(item.bg))

\* ratio < 4.5
low_contrast(item) == 10 * item_ratio(item).num < 45 * item_ratio(item).den

\* The entries that give a rect: the first three of low contrast
contrast_hits(styles) ==
    Take(SelectSeq([n \in DOMAIN styles |-> n], LAMBDA n : low_contrast(styles[n])),
         MaxContrastRects)

\* The box of the n-th entry of style_results
ItemRect(n, label) == ElemRect(n, label)

rule_contrast(c, i, p) ==
    LET hits == contrast_hits(p.styles)
        contrast_rects ==
            [n \in DOMAIN hits |->
                ItemRect(hits[n],
                         "Contrast " \o two_decimals(item_ratio(p.styles[hits[n]])) \o ":1")]
        first == p.styles[hits[1]]
    IN  IF hits = <<>>
        THEN c
        ELSE Fire(c, i, "Insufficient colour contrast",
                  <<"Contrast ", two_decimals(item_ratio(first)),
                    ":1 below 4.5:1 for text '", first.text, "'.">>,
                  "High", contrast_rects, "contrast", "", p)

RuleContrast ==
    /\ pc = "contrast"
    /\ LET c == rule_contrast(Ctx, idx, web[idx])
       IN  /\ Commit(c)
           /\ Continue(c, "keyboard")
    /\ UNCHANGED <<urls, web, idx, driver, page_screenshots, title_map,
                   nav_signatures, majority, visits, routeVars>>

---------------------------------------------------------------------------
(* Lines 372-387: 7) keyboard navigation *)

rule_keyboard(c, i, p) ==
    IF p.fault = "kb"
    THEN RaiseAt(c, "kb")
    ELSE
    LET c1 == IF p.tabbables = 0
              THEN Fire(c, i, "Keyboard navigation inaccessible",
                        <<"Ensure interactive elements are reachable via keyboard (Tab).">>,
                        "High", <<>>, "keyboard", "Keyboard nav", p)
              ELSE c
        blocked_rects ==
            Take([n \in 1..p.blocked |-> ElemRect(n, "tabindex -1")], MaxBlockedRects)
    IN  IF p.blocked > 0
        THEN IF p.fault = "locate_blocked"
             THEN RaiseAt(c1, "locate_blocked")
             ELSE Fire(c1, i, "Elements removed from tab order",
                       <<"Avoid tabindex='-1' unless necessary; keep natural focus order.">>,
                       "Low", blocked_rects, "keyboard", "Tab order", p)
        ELSE c1

RuleKeyboard ==
    /\ pc = "keyboard"
    /\ LET c == rule_keyboard(Ctx, idx, web[idx])
       IN  /\ Commit(c)
           /\ Continue(c, "forms")
    /\ UNCHANGED <<urls, web, idx, driver, page_screenshots, title_map,
                   nav_signatures, majority, visits, routeVars>>

---------------------------------------------------------------------------
(* Lines 389-414: 8) form usability *)

\* id_ and soup.find('label', attrs={'for': id_}), or inp.find_parent('label')
has_label(inp) == (inp.id # "" /\ inp.labelFor) \/ inp.wrapped

\* The controls of the page in document order
RECURSIVE Flatten(_)
Flatten(forms) == IF forms = <<>> THEN <<>> ELSE Head(forms) \o Flatten(Tail(forms))

\* The control whose box the scripts of lines 400-410 return for inp: the
\* first one matching the selector (the tag of inp when inp has a name
\* attribute, any control otherwise), replaced by the one with the id of
\* inp when inp has an id; no box when that second script raises
form_rect(p, inp) ==
    LET all == Flatten(p.forms)
        by_selector == FirstOf({n \in DOMAIN all : inp.named => all[n].tag = inp.tag})
        by_id == FirstOf({n \in DOMAIN all : all[n].id = inp.id})
    IN  IF inp.id = "" THEN <<ElemRect(by_selector, "Missing label")>>
        ELSE IF p.fault = "locate_form_by_id" THEN <<>>
        ELSE <<ElemRect(by_id, "Missing label")>>

\* The body of `for form in soup.find_all('form')`, from the f-th form on:
\* the break of line 414 leaves the loop over the controls of one form
RECURSIVE scan_forms(_, _, _, _)
scan_forms(c, i, p, f) ==
    IF f > Len(p.forms)
    THEN c
    ELSE
    LET form == p.forms[f]
        k == FirstOf({n \in DOMAIN form : ~has_label(form[n])})
    IN  IF k = 0
        THEN scan_forms(c, i, p, f + 1)
        ELSE IF p.fault = "locate_form"
        THEN RaiseAt(c, "locate_form")
        ELSE scan_forms(Fire(c, i, "Form field missing label",
                             <<"Associate inputs with visible labels using <label for='id'>.">>,
                             "Medium", form_rect(p, form[k]), "forms", "Missing label", p),
                        i, p, f + 1)

RuleForms ==
    /\ pc = "forms"
    /\ LET c == scan_forms(Ctx, idx, web[idx], 1)
       IN  /\ Commit(c)
           /\ Continue(c, "nav")
    /\ UNCHANGED <<urls, web, idx, driver, page_screenshots, title_map,
                   nav_signatures, majority, visits, routeVars>>

---------------------------------------------------------------------------
(* Lines 416-418: 9) the navigation signature of the page *)

\* "|".join(nav_links) if nav_links else "", nav_links the first ten texts
nav_signature(p) == Join(Take(p.nav, MaxNavLinks))

NavSignature ==
    /\ pc = "nav"
    /\ nav_signatures' = DictSet(nav_signatures, urls[idx], nav_signature(web[idx]))
    /\ pc' = "feedback"
    /\ UNCHANGED <<urls, web, idx, driver, issues, owner, page_screenshots,
                   title_map, majority, uuids, files, visits, raisedAt, exc,
                   captures, layers, routeVars>>

---------------------------------------------------------------------------
(* Lines 420-423: 10) feedback mechanisms *)

rule_feedback(c, i, p) ==
    IF ~p.feedback
    THEN Fire(c, i, "Missing user feedback hooks",
              <<"Provide clear feedback areas (role='alert' or aria-live) for system actions/errors.">>,
              "Low", <<>>, "feedback", "Missing feedback", p)
    ELSE c

RuleFeedback ==
    /\ pc = "feedback"
    /\ LET c == rule_feedback(Ctx, idx, web[idx])
       IN  /\ Commit(c)
           /\ Continue(c, "readability")
    /\ UNCHANGED <<urls, web, idx, driver, page_screenshots, title_map,
                   nav_signatures, majority, visits, routeVars>>

---------------------------------------------------------------------------
(* Lines 425-445: 11) readability *)

\* fs, in hundredths of a pixel: 12.0 when float raises
font_size(item) ==
    LET f == float(numeric_chars(item.fontSize))
    IN  IF f.ok THEN f.val ELSE 100 * MinFontPx

\* lh, in hundredths of a pixel: fs * 1.2 when float raises
line_height(item) ==
    LET f == float(numeric_chars(item.lineHeight))
    IN  IF f.ok THEN f.val ELSE (font_size(item) * 12) \div 10

\* fs < 12
small_font(item) == font_size(item) < 100 * MinFontPx

\* (lh/fs) if fs>0 else 1.0 < 1.2: a conditional expression binds weaker
\* than <, so for fs > 0 the test is lh/fs itself, true when it is not 0,
\* and for fs <= 0 it is 1.0 < 1.2
tight_line_spacing(item) ==
    IF font_size(item) > 0 THEN line_height(item) # 0 ELSE TRUE

\* The body of `for item in style_results`, from the k-th entry on
RECURSIVE scan_styles(_, _, _, _)
scan_styles(c, i, p, k) ==
    IF k > Len(p.styles)
    THEN c
    ELSE
    LET item == p.styles[k]
    IN  IF small_font(item)
        THEN Fire(c, i, "Small font size",
                  <<"Increase font size to >= 12px. Found ", float_repr(font_size(item)), "px.">>,
                  "Low", <<ItemRect(k, "Small font")>>, "readability", "Small font", p)
        ELSE IF tight_line_spacing(item)
        THEN Fire(c, i, "Tight line spacing",
                  <<"Use line-height ~ 1.4 for comfortable reading.">>,
                  "Low", <<ItemRect(k, "Line-height")>>, "readability", "Line-height", p)
        ELSE scan_styles(c, i, p, k + 1)

RuleReadability ==
    /\ pc = "readability"
    /\ LET c == scan_styles(Ctx, idx, web[idx], 1)
       IN  /\ Commit(c)
           /\ Continue(c, "perf")
    /\ UNCHANGED <<urls, web, idx, driver, page_screenshots, title_map,
                   nav_signatures, majority, visits, routeVars>>

---------------------------------------------------------------------------
(* Lines 447-456: 12) performance *)

rule_performance(c, i, p) ==
    IF p.fault = "perf"
    THEN RaiseAt(c, "perf")
    ELSE IF p.dur > SlowPageMs
    THEN Fire(c, i, "Slow page performance",
              <<"Navigation duration ", ToString(p.dur), "ms; optimize assets and requests.">>,
              "Medium", <<>>, "performance", "Slow page", p)
    ELSE c

RulePerformance ==
    /\ pc = "perf"
    /\ LET c == rule_performance(Ctx, idx, web[idx])
       IN  /\ Commit(c)
           /\ Continue(c, "images")
    /\ UNCHANGED <<urls, web, idx, driver, page_screenshots, title_map,
                   nav_signatures, majority, visits, routeVars>>

---------------------------------------------------------------------------
(* Lines 458-486: 13) images with a broken src; the last block of the loop body *)

\* f"Failed to load image: {src}"
failed_image_desc(src) == <<"Failed to load image: ", JoinChars(src)>>

\* f"Image returns HTTP {status}: {abs_img}"
http_image_desc(status, abs_img) == <<"Image returns HTTP ", ToString(status), ": ", abs_img>>

\* The body of `for img in soup.find_all('img')`, from the k-th image on
RECURSIVE scan_imgs(_, _, _, _)
scan_imgs(c, i, p, k) ==
    IF k > Len(p.imgs)
    THEN c
    ELSE
    LET img == p.imgs[k]
        resp == urlopen(img.answer)
        img_rect == <<ElemRect(FirstOf({n \in DOMAIN p.imgs : p.imgs[n].src = img.src}),
                               "Broken image")>>
    IN  IF img.src = <<>>
        THEN scan_imgs(c, i, p, k + 1)
        ELSE IF resp.raised
        THEN IF p.fault = "locate_img"
             THEN RaiseAt(c, "locate_img")
             ELSE Fire(c, i, "Broken image source", failed_image_desc(img.src),
                       "Low", img_rect, "images", "Broken image", p)
        ELSE IF resp.status >= MinErrorStatus
        THEN Fire(c, i, "Broken image source",
                  http_image_desc(resp.status, urljoin(urls[i], JoinChars(img.src))),
                  "Low", img_rect, "images", "Broken image", p)
        ELSE scan_imgs(c, i, p, k + 1)

RuleImages ==
    /\ pc = "images"
    /\ LET c == scan_imgs(Ctx, idx, web[idx], 1)
       IN  /\ Commit(c)
           /\ IF c.raised = NoExc
              THEN NextIteration /\ UNCHANGED <<exc, raisedAt>>
              ELSE Continue(c, "images") /\ idx' = idx
    /\ UNCHANGED <<urls, web, driver, page_screenshots, title_map,
                   nav_signatures, majority, visits, routeVars>>

---------------------------------------------------------------------------
(* Lines 490-498: the except and finally clauses of the loop body *)

\* An except clause that swallows the exception without recording it
page_load_error_swallowed(c, i, e) == c

\* An except clause that drops what the visit had appended before it
\* records the error
page_load_error_rollback(c, i, e) ==
    LET kept == {k \in DOMAIN c.issues : c.owner[k] # i}
        n == Cardinality(kept)
    IN  [c EXCEPT !.issues = SubSeq(c.issues, 1, n) \o
                      <<[issue_name |-> "Page load error", link |-> urls[i],
                         desc |-> <<e.msg>>, severity |-> "High",
                         shot_name |-> NoShot]>>,
                  !.owner = SubSeq(c.owner, 1, n) \o <<i>>]

\* issues.append(["Page load error", link, str(e), "High", None])
page_load_error(c, i, e) ==
    Append_issue(c, i, "Page load error", <<e.msg>>, "High", NoShot)

\* except Exception as e: the error is recorded and the loop goes on
PageError ==
    /\ pc = "except"
    /\ IsException(exc)
    /\ Commit(page_load_error(Ctx, idx, exc))
    /\ exc' = NoExc
    /\ NextIteration
    /\ UNCHANGED <<urls, web, driver, page_screenshots, title_map,
                   nav_signatures, majority, visits, raisedAt, routeVars>>

\* An exception the clause does not name leaves run_scan through the
\* finally clause, which only logs
Propagate ==
    /\ pc = "except"
    /\ ~IsException(exc)
    /\ pc' = "raised"
    /\ UNCHANGED <<urls, web, idx, driver, issues, owner, page_screenshots,
                   title_map, nav_signatures, majority, uuids, files, visits,
                   raisedAt, exc, captures, layers, routeVars>>

---------------------------------------------------------------------------
(* Lines 500-513: the cross-page checks *)

Range(lst) == {lst[n] : n \in DOMAIN lst}

\* The duplicate test with the count compared to 0: titles.count(t) > 0
dup_titles_any(titles) == {t \in Range(titles) : t # <<>> /\ Count(titles, t) > 0}

\* The duplicate test without its first operand: titles.count(t) > 1
dup_titles_with_empty(titles) == {t \in Range(titles) : Count(titles, t) > 1}

\* {t for t in titles if t and titles.count(t) > 1}
dup_titles(titles) == {t \in Range(titles) : t # <<>> /\ Count(titles, t) > 1}

\* The pages of title_map, in dict order, that get "Non-unique page title"
non_unique_pages(tm) ==
    IF Len(tm.keys) > 1
    THEN SelectSeq(tm.keys, LAMBDA page : tm.val[page] \in dup_titles(DictValues(tm)))
    ELSE <<>>

\* min in place of max: the signatures of lowest count
majorities_least(sigs) ==
    {s \in Range(sigs) : \A t \in Range(sigs) : Count(sigs, s) <= Count(sigs, t)}

\* max(set(sigs), key=sigs.count): the first signature of highest count in
\* the iteration order of set(sigs), which is the order of the strings'
\* hashes and not the order of the pages: any signature of highest count
majorities(sigs) ==
    {s \in Range(sigs) : \A t \in Range(sigs) : Count(sigs, t) <= Count(sigs, s)}

\* The test without its first operand: majority and sig != majority
inconsistent_unguarded(sig, m) == m # "" /\ sig # m

\* sig and majority and sig != majority
inconsistent(sig, m) == sig # "" /\ m # "" /\ sig # m

\* The pages of nav_signatures, in dict order, that get "Inconsistent navigation"
inconsistent_pages(ns, m) ==
    IF Len(ns.keys) > 1
    THEN SelectSeq(ns.keys, LAMBDA page : inconsistent(ns.val[page], m))
    ELSE <<>>

non_unique_issue(page) ==
    [issue_name |-> "Non-unique page title", link |-> page,
     desc |-> <<"Each page should have a unique, descriptive title.">>,
     severity |-> "Medium", shot_name |-> NoShot]

inconsistent_issue(page) ==
    [issue_name |-> "Inconsistent navigation", link |-> page,
     desc |-> <<"Use a uniform navigation structure across pages.">>,
     severity |-> "Low", shot_name |-> NoShot]

Aggregate ==
    /\ pc = "aggregate"
    /\ \E m \in (IF Len(nav_signatures.keys) > 1
                 THEN majorities(DictValues(nav_signatures)) ELSE {majority}) :
          LET dups == non_unique_pages(title_map)
              odd == inconsistent_pages(nav_signatures, m)
              added == [n \in 1..Len(dups) |-> non_unique_issue(dups[n])]
                       \o [n \in 1..Len(odd) |-> inconsistent_issue(odd[n])]
          IN  /\ majority' = m
              /\ issues' = issues \o added
              /\ owner' = owner \o [n \in 1..Len(added) |-> 0]
    /\ pc' = "quit"
    /\ UNCHANGED <<urls, web, idx, driver, page_screenshots, title_map,
                   nav_signatures, uuids, files, visits, raisedAt, exc,
                   captures, layers, routeVars>>

---------------------------------------------------------------------------
(* Lines 515-516: the session is closed and the result returned *)

Quit ==
    /\ pc = "quit"
    /\ driver' = "closed"
    /\ pc' = "done"
    /\ UNCHANGED <<urls, web, idx, issues, owner, page_screenshots, title_map,
                   nav_signatures, majority, uuids, files, visits, raisedAt, exc,
                   captures, layers, routeVars>>

---------------------------------------------------------------------------
(* Lines 518-600, 607-652, 654-708: the routes, from the return of run_scan *)

\* None as a path
NoPath == "None"

\* generate_pdf_report(issues, page_screenshots, output_path): output_path
\* when doc.build(elements) returns, None when it raises
generate_pdf_report(built, output_path) == IF built THEN output_path ELSE NoPath

\* url_test, lines 641-646: the value of generate_pdf_report is dropped and
\* results.html is rendered with the report id
url_test_response(path) == "results"

\* html_test, lines 691-699: flash and redirect when pdf_path is None,
\* results.html otherwise
html_test_response(path) == IF path = NoPath THEN "error" ELSE "results"

\* run_scan was called by url_test with the URLs of the form
UrlTest ==
    /\ pc = "done"
    /\ response = "none"
    /\ \E built \in BOOLEAN :
          LET path == generate_pdf_report(built, "reports/id.pdf")
          IN  /\ pdf_path' = path
              /\ response' = url_test_response(path)
    /\ route' = "url_test"
    /\ UNCHANGED <<urls, web, pc, idx, driver, issues, owner, page_screenshots,
                   title_map, nav_signatures, majority, uuids, files, visits,
                   raisedAt, exc, captures, layers>>

\* run_scan was called by html_test with the URL of the uploaded file
HtmlTest ==
    /\ pc = "done"
    /\ response = "none"
    /\ Len(urls) = 1
    /\ \E built \in BOOLEAN :
          LET path == generate_pdf_report(built, "reports/id.pdf")
          IN  /\ pdf_path' = path
              /\ response' = html_test_response(path)
    /\ route' = "html_test"
    /\ UNCHANGED <<urls, web, pc, idx, driver, issues, owner, page_screenshots,
                   title_map, nav_signatures, majority, uuids, files, visits,
                   raisedAt, exc, captures, layers>>

\* except Exception of either route (lines 647-650, 703-706): flash and redirect
RouteError ==
    /\ pc = "raised"
    /\ IsException(exc)
    /\ response = "none"
    /\ \E r \in {"url_test"} \cup (IF Len(urls) = 1 THEN {"html_test"} ELSE {}) :
          route' = r
    /\ response' = "error"
    /\ UNCHANGED <<urls, web, pc, idx, driver, issues, owner, page_screenshots,
                   title_map, nav_signatures, majority, uuids, files, visits,
                   raisedAt, exc, captures, layers, pdf_path>>

---------------------------------------------------------------------------

Next ==
    \/ StartScan
    \/ LoadPage
    \/ RuleTitle
    \/ RuleHeadings
    \/ RuleAlt
    \/ RuleViewport
    \/ RuleLinks
    \/ RuleContrast
    \/ RuleKeyboard
    \/ RuleForms
    \/ NavSignature
    \/ RuleFeedback
    \/ RuleReadability
    \/ RulePerformance
    \/ RuleImages
    \/ PageError
    \/ Propagate
    \/ Aggregate
    \/ Quit
    \/ UrlTest
    \/ HtmlTest
    \/ RouteError

Spec == Init /\ [][Next]_vars

SpecCross == InitCross /\ [][Next]_vars

SpecRules == InitRules /\ [][Next]_vars

SpecOrder == InitOrder /\ [][Next]_vars

---------------------------------------------------------------------------
(* Vocabulary of the properties *)

\* The blocks of the loop body, in order
Steps == <<"load", "title", "headings", "alt", "viewport", "links", "contrast",
           "keyboard", "forms", "nav", "feedback", "readability", "perf", "images">>

Pos(step) == CHOOSE n \in DOMAIN Steps : Steps[n] = step

\* The block in which a failure point lies
StepOf(point) ==
    CASE point \in {"get", "interrupt", "page_source", "style"} -> "load"
      [] point \in {"locate_h1", "locate_skip"} -> "headings"
      [] point = "locate_alt" -> "alt"
      [] point = "mq_count" -> "viewport"
      [] point \in {"locate_empty_link", "locate_dead_status", "locate_dead_link"} -> "links"
      [] point \in {"kb", "locate_blocked"} -> "keyboard"
      [] point = "locate_form" -> "forms"
      [] point = "perf" -> "perf"
      [] point = "locate_img" -> "images"

AfterLoop == {"aggregate", "quit", "done"}

\* The i-th visit is over: its try statement was left by the loop going on
Finished(i) == i < idx \/ (i = idx /\ pc \in AfterLoop)

\* The i-th visit ran the block `step` to its end
Past(i, step) ==
    /\ \A r \in raisedAt : r[1] = i => Pos(StepOf(r[2])) > Pos(step)
    /\ \/ Finished(i)
       \/ i = idx /\ pc \in {"except", "raised"}
       \/ i = idx /\ pc \in Range(Steps) /\ Pos(pc) > Pos(step)

\* The findings named `name` appended during the i-th visit
IssuesOf(i, name) == {k \in DOMAIN issues : owner[k] = i /\ issues[k].issue_name = name}

\* The cross-page findings named `name` for the URL `page`
CrossIssuesOf(page, name) ==
    {k \in DOMAIN issues :
        owner[k] = 0 /\ issues[k].issue_name = name /\ issues[k].link = page}

\* The visits that raised an Exception, with the text of the exception
Raised(i) == {r \in raisedAt : r[1] = i /\ r[2] # "interrupt"}

---------------------------------------------------------------------------
(* C1 *)

\* C1: every visit that raised an Exception has, once it is over, exactly
\* one "Page load error" finding for its URL, of severity High, described by
\* the exception text and without evidence; a visit that did not raise has
\* none; the loop reaches its end with every URL of the list handed to
\* driver.get, and run_scan is never left by an Exception of a page.
C1_PageErrorRecorded ==
    /\ \A i \in 1..Len(urls) :
          Finished(i) =>
             LET ks == IssuesOf(i, "Page load error")
             IN  IF Raised(i) = {}
                 THEN ks = {}
                 ELSE /\ Cardinality(ks) = 1
                      /\ \A k \in ks : \A r \in Raised(i) :
                            issues[k] = [issue_name |-> "Page load error",
                                         link |-> urls[i],
                                         desc |-> <<"Message: " \o r[2]>>,
                                         severity |-> "High",
                                         shot_name |-> NoShot]
    /\ pc \in AfterLoop => visits = urls
    /\ (pc = "raised" /\ driver # "none") => ~IsException(exc)

\* A scan that ended normally although a page that is not the last one failed to load
C1_Witness ==
    /\ pc = "done"
    /\ \E i \in 1..Len(urls) :
          /\ i < Len(urls)
          /\ <<i, "get">> \in raisedAt
          /\ IssuesOf(i, "Page load error") # {}
          /\ Len(visits) = Len(urls)

---------------------------------------------------------------------------
(* C2 *)

\* C2: every finding that carries a screenshot name names a file that was
\* written (the write precedes the append, so this holds at every moment).
C2_EvidenceWritten ==
    \A k \in DOMAIN issues :
        issues[k].shot_name # NoShot =>
            \E f \in files : f.name = issues[k].shot_name

---------------------------------------------------------------------------
(* C3 *)

\* C3: when run_scan has returned or has propagated an exception and the
\* session had been created, the session is closed.
C3_SessionClosed ==
    (pc \in {"done", "raised"} /\ driver # "none") => driver = "closed"

---------------------------------------------------------------------------
(* C4 *)

\* Length of the title between its first and its last non-blank character
TrimmedLen(t) ==
    LET ink == {k \in DOMAIN t.str : ~IsSpace(t.str[k])}
    IN  IF ~t.present \/ ink = {}
        THEN 0
        ELSE (CHOOSE k \in ink : \A j \in ink : j <= k)
             - (CHOOSE k \in ink : \A j \in ink : k <= j) + 1

\* C4: a visit that loaded and ran the title rule has exactly one "Page
\* title not descriptive" finding, of severity High and for its URL, when
\* the trimmed title has fewer than 5 characters (none, or empty), and has
\* no such finding when the trimmed title has 5 characters or more.
C4_TitleQuality ==
    \A i \in 1..Len(urls) :
        Past(i, "title") =>
            LET ks == IssuesOf(i, "Page title not descriptive")
            IN  /\ Cardinality(ks) = IF TrimmedLen(web[i].title) < 5 THEN 1 ELSE 0
                /\ \A k \in ks : issues[k].severity = "High" /\ issues[k].link = urls[i]

\* A page whose title is 5 characters long only with its blanks has been flagged
C4_Witness ==
    \E i \in 1..Len(urls) :
        /\ Past(i, "title")
        /\ Len(web[i].title.str) >= 5
        /\ TrimmedLen(web[i].title) \in 1..4
        /\ IssuesOf(i, "Page title not descriptive") # {}

---------------------------------------------------------------------------
(* C5 *)

\* C5: a visit that ran the headings rule and is over has a "Multiple H1
\* headings" finding of severity Low when the page has more than one h1, a
\* "Missing H1 heading" finding of severity Medium when it has none, and
\* never both.
C5_H1Findings ==
    \A i \in 1..Len(urls) :
        (Finished(i) /\ Past(i, "title")) =>
            LET h1s == Count(web[i].levels, 1)
                multi == IssuesOf(i, "Multiple H1 headings")
                missing == IssuesOf(i, "Missing H1 heading")
            IN  /\ h1s > 1 => \E k \in multi : issues[k].severity = "Low"
                /\ h1s = 0 => \E k \in missing : issues[k].severity = "Medium"
                /\ multi = {} \/ missing = {}

---------------------------------------------------------------------------
(* C10 *)

\* The k-th anchor of the page is fetched: every anchor before it has a
\* proper href and an endpoint that answers 2xx
Fetched(p, k) ==
    /\ k \in DOMAIN p.anchors
    /\ \A j \in 1..k : ~empty_href(p.anchors[j].href)
    /\ \A j \in 1..(k - 1) : p.anchors[j].answer \in 200..299

\* C10: a visit that is over and fetched an anchor whose endpoint answered
\* 400 or more has a "Broken link detected" finding of severity High whose
\* description contains the status code.
C10_StatusInDescription ==
    \A i \in 1..Len(urls) :
        (Finished(i) /\ Past(i, "headings")) =>
            \A k \in DOMAIN web[i].anchors :
                (Fetched(web[i], k) /\ web[i].anchors[k].answer >= 400) =>
                    \E n \in IssuesOf(i, "Broken link detected") :
                        /\ issues[n].severity = "High"
                        /\ ToString(web[i].anchors[k].answer) \in Range(issues[n].desc)

---------------------------------------------------------------------------
(* Vocabulary of the cross-page properties *)

UrlSet == Range(urls)

Returned == pc \in {"quit", "done"}

LastOf(S) == CHOOSE i \in S : \A j \in S : j <= i

\* The visits of URL u that recorded a title (line 237), a signature (line 418)
TitleVisits(u) == {i \in DOMAIN urls : urls[i] = u /\ Past(i, "title")}
NavVisits(u) == {i \in DOMAIN urls : urls[i] = u /\ Past(i, "nav")}

\* The title and the signature of URL u: those of the last visit that recorded one
RecordedTitle(u) == page_title(web[LastOf(TitleVisits(u))])
Sig(u) == nav_signature(web[LastOf(NavVisits(u))])

\* The URLs with a recorded signature, and the signatures in the order of
\* the first such visit of each URL
SigUrls == {u \in UrlSet : NavVisits(u) # {}}

NavIssues(u) == CrossIssuesOf(u, "Inconsistent navigation")

---------------------------------------------------------------------------
(* C6 *)

\* u has a non-empty title that another scanned page has too
SharesTitle(u) ==
    /\ TitleVisits(u) # {}
    /\ RecordedTitle(u) # <<>>
    /\ \E v \in UrlSet \ {u} :
          TitleVisits(v) # {} /\ RecordedTitle(v) = RecordedTitle(u)

\* C6: when run_scan returns, each scanned URL has one "Non-unique page
\* title" finding, of severity Medium, if its recorded title is non-empty
\* and is the recorded title of another scanned URL, and none otherwise.
C6_DuplicateTitles ==
    Returned =>
        \A u \in UrlSet :
            LET ks == CrossIssuesOf(u, "Non-unique page title")
            IN  /\ Cardinality(ks) = IF SharesTitle(u) THEN 1 ELSE 0
                /\ \A k \in ks : issues[k].severity = "Medium"

\* Pages A and B share a title and are flagged, page C has a title of its own and is not
C6_Witness ==
    /\ pc = "done"
    /\ Cardinality(UrlSet) = 3
    /\ \E a, b, c \in UrlSet :
          /\ a # b /\ a # c /\ b # c
          /\ SharesTitle(a) /\ SharesTitle(b)
          /\ TitleVisits(c) # {} /\ RecordedTitle(c) # <<>> /\ ~SharesTitle(c)
          /\ CrossIssuesOf(a, "Non-unique page title") # {}
          /\ CrossIssuesOf(b, "Non-unique page title") # {}
          /\ CrossIssuesOf(c, "Non-unique page title") = {}

---------------------------------------------------------------------------
(* C7 *)

\* A returned scan of three URLs, each with a recorded signature
ThreeSigs == Returned /\ Len(urls) = 3 /\ Cardinality(SigUrls) = 3

\* v and w are the two pages that agree, u is the odd page
OddOneOut(u, v, w) ==
    /\ {u, v, w} = UrlSet
    /\ v # w
    /\ Sig(v) = Sig(w)
    /\ Sig(u) # Sig(v)

OnlyOddFlagged(u, v, w) ==
    /\ Cardinality(NavIssues(u)) = 1
    /\ NavIssues(v) = {}
    /\ NavIssues(w) = {}

NoneFlagged == \A u \in UrlSet : NavIssues(u) = {}

---------------------------------------------------------------------------
(* C8 *)

\* list(nav_signatures.values()) told from the pages: the signatures of the
\* URLs with a recorded signature
SigCount(s) == Cardinality({u \in SigUrls : Sig(u) = s})

---------------------------------------------------------------------------
(* C9 *)

\* The signatures in page scan order
ScanOrderSigs == DictValues(nav_signatures)

\* The signature of highest count that appears first in page scan order
FirstSeenMajority ==
    LET n == CHOOSE n \in DOMAIN ScanOrderSigs :
                 /\ \A t \in Range(ScanOrderSigs) :
                       Count(ScanOrderSigs, t) <= Count(ScanOrderSigs, ScanOrderSigs[n])
                 /\ \A j \in 1..(n - 1) :
                       Count(ScanOrderSigs, ScanOrderSigs[j])
                           < Count(ScanOrderSigs, ScanOrderSigs[n])
    IN  ScanOrderSigs[n]

\* C9: the pages with an "Inconsistent navigation" finding are those the
\* ordered list of signatures determines when a tie for the highest count
\* goes to the tied signature that appears first in page scan order.
C9_FirstSeenTie ==
    (Returned /\ Len(nav_signatures.keys) > 1) =>
        \A u \in DOMAIN nav_signatures.val :
            NavIssues(u) # {} <=>
                inconsistent(nav_signatures.val[u], FirstSeenMajority)

---------------------------------------------------------------------------
(* C11 *)

\* The fetch of the k-th anchor of the page is made and raises or times out
FetchFails(p, k) == Fetched(p, k) /\ urlopen(p.anchors[k].answer).raised

\* C11: a visit that is over, reached the link block and made a fetch that
\* raised or timed out has exactly one "Broken link detected" finding, of
\* severity High and described by "Failed to open: <href>", and ran the link
\* block to its end, so that no "Page load error" comes from the block and
\* the rules after it were evaluated.
C11_FetchFailureRecorded ==
    \A i \in 1..Len(urls) :
        (Finished(i) /\ Past(i, "viewport")) =>
            \A k \in DOMAIN web[i].anchors :
                FetchFails(web[i], k) =>
                    LET ks == IssuesOf(i, "Broken link detected")
                    IN  /\ Cardinality(ks) = 1
                        /\ \A n \in ks :
                              /\ issues[n].severity = "High"
                              /\ issues[n].desc = failed_desc(web[i].anchors[k].href)
                        /\ Past(i, "links")

---------------------------------------------------------------------------
(* C12 *)

\* The calls of capture_rule_screenshot with no rects and a label
BannerCalls == {n \in DOMAIN captures :
                   captures[n].rects = <<>> /\ captures[n].label_text # ""}

\* C12: every call of capture_rule_screenshot with zero rects and a label
\* returned a screenshot name (never None, and carrying the rule key), and
\* the overlay it handed to the page is exactly one rect, at left 10, top
\* 10, 300 wide and 30 high, labelled with the label of the call; the file
\* written under that name, if any, shows that one rect as the overlay of
\* the call when the overlay script did not fail.
C12_BannerFallback ==
    \A n \in BannerCalls :
        LET call == captures[n]
            banner == [left |-> 10, top |-> 10, width |-> 300, height |-> 30,
                       label |-> call.label_text]
        IN  /\ call.ret # NoShot
            /\ call.ret.uid > 0
            /\ call.ret.key = call.rule_key
            /\ call.overlay = <<banner>>
            /\ \A f \in files :
                   (f.name = call.ret /\ call.injected) => f.overlays = <<banner>>

\* A finding whose evidence is a written file showing the banner alone
C12_Witness ==
    \E n \in BannerCalls : \E k \in DOMAIN issues : \E f \in files :
        /\ issues[k].shot_name = captures[n].ret
        /\ f.name = captures[n].ret
        /\ Len(f.overlays) = 1
        /\ f.overlays[1].label = captures[n].label_text
        /\ f.overlays[1].left = 10

---------------------------------------------------------------------------
(* C13 *)

\* Some element of the list meets the test
Some(lst, Test(_)) == \E n \in DOMAIN lst : Test(lst[n])

generic_text(a) == a.text # "" /\ Lower(a.text) \in GenericLinkTexts

dead_link(a) ==
    /\ ~empty_href(a.href)
    /\ (urlopen(a.answer).raised \/ urlopen(a.answer).status >= MinErrorStatus)

broken_image(img) ==
    /\ img.src # <<>>
    /\ (urlopen(img.answer).raised \/ urlopen(img.answer).status >= MinErrorStatus)

\* The rules of the battery, each with its own firing condition on the
\* page p: the test of the rule's if statement, met by the page or by some
\* element of the list the rule scans
Battery(p) ==
    {[name |-> "Page title not descriptive", holds |-> title_not_descriptive(page_title(p))],
     [name |-> "Missing H1 heading", holds |-> missing_h1(p.levels)],
     [name |-> "Multiple H1 headings", holds |-> multiple_h1(p.levels)],
     [name |-> "Heading level skips", holds |-> first_skip(p.levels) # 0],
     [name |-> "Image alt text not meaningful", holds |-> Some(p.imgs, alt_not_meaningful)],
     [name |-> "Missing viewport meta", holds |-> ~p.viewport_meta],
     [name |-> "No responsive media queries", holds |-> p.mq_count = 0],
     [name |-> "Empty or broken link",
      holds |-> Some(p.anchors, LAMBDA a : empty_href(a.href))],
     [name |-> "Link text not descriptive", holds |-> Some(p.anchors, generic_text)],
     [name |-> "Broken link detected", holds |-> Some(p.anchors, dead_link)],
     [name |-> "Insufficient colour contrast", holds |-> Some(p.styles, low_contrast)],
     [name |-> "Keyboard navigation inaccessible", holds |-> p.tabbables = 0],
     [name |-> "Elements removed from tab order", holds |-> p.blocked > 0],
     [name |-> "Form field missing label",
      holds |-> Some(Flatten(p.forms), LAMBDA inp : ~has_label(inp))],
     [name |-> "Missing user feedback hooks", holds |-> ~p.feedback],
     [name |-> "Small font size", holds |-> Some(p.styles, small_font)],
     [name |-> "Tight line spacing", holds |-> Some(p.styles, tight_line_spacing)],
     [name |-> "Slow page performance", holds |-> p.dur > SlowPageMs],
     [name |-> "Broken image source", holds |-> Some(p.imgs, broken_image)]}

\* The i-th visit is over and no exception was raised in it
Processed(i) == Finished(i) /\ \A r \in raisedAt : r[1] # i

\* C13: for every visit processed without exception and every rule of the
\* battery, the visit has a finding of the rule exactly when the rule's own
\* firing condition holds on the page, whatever the other rules found.
C13_RulesIndependent ==
    \A i \in 1..Len(urls) :
        Processed(i) =>
            \A rule \in Battery(web[i]) :
                rule.holds <=> IssuesOf(i, rule.name) # {}

---------------------------------------------------------------------------
(* C14 *)

\* C14: when generate_pdf_report returned None, the route that called it,
\* url_test or html_test, answers with the error and not with the results
\* page that offers the report.
C14_BuildFailureReported ==
    (route \in {"url_test", "html_test"} /\ pdf_path = NoPath) => response = "error"

---------------------------------------------------------------------------
(* C15 *)

\* The alt of the image, trimmed and in lower case
PlainAlt(img) == str_lower(Strip(img.alt.str))

\* The alt of the image is missing, shorter than 3 characters, one of
\* 'image', 'photo', 'picture' whatever the case, or the file name of the src
PoorAlt(img) ==
    \/ ~img.alt.present
    \/ Len(Strip(img.alt.str)) < 3
    \/ PlainAlt(img) \in {<<"i", "m", "a", "g", "e">>, <<"p", "h", "o", "t", "o">>,
                          <<"p", "i", "c", "t", "u", "r", "e">>}
    \/ PlainAlt(img) = str_lower(basename(img.src))

\* C15: a visit that is over and reached the alt rule has an "Image alt
\* text not meaningful" finding, of severity High, when some image of the
\* page has a poor alt, and has none when every image has a descriptive alt.
C15_AltRule ==
    \A i \in 1..Len(urls) :
        (Finished(i) /\ Past(i, "headings")) =>
            LET ks == IssuesOf(i, "Image alt text not meaningful")
            IN  /\ Some(web[i].imgs, PoorAlt) <=> ks # {}
                /\ \A k \in ks : issues[k].severity = "High"

---------------------------------------------------------------------------
(* C16 *)

\* The colours of the style entries of a page, parsed
PageColours(p) ==
    UNION {{parse_rgb(p.styles[n].color), parse_rgb(p.styles[n].bg)} : n \in DOMAIN p.styles}

\* C16: for every two colours of a page handed to the contrast rule,
\* contrast_ratio gives the same value with the operands in either order,
\* and the value is never below 1.
C16_ContrastSymmetric ==
    \A i \in DOMAIN web :
        \A fg, bg \in PageColours(web[i]) :
            /\ contrast_ratio(fg, bg) = contrast_ratio(bg, fg)
            /\ contrast_ratio(fg, bg).num >= contrast_ratio(fg, bg).den

\* Light text on a darker background has been flagged with the ratio of
\* the dark colour on the light one, a ratio between 1 and 4.5
C16_Witness ==
    \E i \in DOMAIN web : \E n \in DOMAIN web[i].styles :
        LET fg == parse_rgb(web[i].styles[n].color)
            bg == parse_rgb(web[i].styles[n].bg)
        IN  /\ relative_luminance(fg) > relative_luminance(bg)
            /\ relative_luminance(bg) > 0
            /\ \E k \in IssuesOf(i, "Insufficient colour contrast") :
                  issues[k].desc[2] = two_decimals(contrast_ratio(bg, fg))

---------------------------------------------------------------------------
(* C17 *)

\* The failure points that are queries locating the element of a rule that
\* has fired, each with the finding of its rule
RuleOfQuery(point) ==
    CASE point = "locate_h1" -> "Multiple H1 headings"
      [] point = "locate_skip" -> "Heading level skips"
      [] point = "locate_alt" -> "Image alt text not meaningful"
      [] point = "locate_empty_link" -> "Empty or broken link"
      [] point = "locate_link_text" -> "Link text not descriptive"
      [] point \in {"locate_dead_link", "locate_dead_status"} -> "Broken link detected"
      [] point = "locate_blocked" -> "Elements removed from tab order"
      [] point \in {"locate_form", "locate_form_by_id"} -> "Form field missing label"
      [] point = "locate_img" -> "Broken image source"

LocateFaults ==
    {"locate_h1", "locate_skip", "locate_alt", "locate_empty_link", "locate_link_text",
     "locate_dead_link", "locate_dead_status", "locate_blocked", "locate_form",
     "locate_form_by_id", "locate_img"}

\* In the i-th visit a rule fired and its locating query was made and
\* raised: the exception left the rule block, or the query is one of the
\* two the source wraps in a try of its own
QueryRaised(i) ==
    LET p == web[i]
    IN  /\ p.fault \in LocateFaults
        /\ \/ <<i, p.fault>> \in raisedAt
           \/ /\ p.fault = "locate_link_text"
              /\ Past(i, "viewport")
              /\ \E k \in DOMAIN p.anchors : Fetched(p, k) /\ generic_text(p.anchors[k])
           \/ /\ p.fault = "locate_form_by_id"
              /\ Past(i, "keyboard")
              /\ \E f \in DOMAIN p.forms :
                    LET k == FirstOf({n \in DOMAIN p.forms[f] : ~has_label(p.forms[f][n])})
                    IN  k # 0 /\ p.forms[f][k].id # ""

\* C17: a visit that is over and in which the locating query of a rule
\* that fired raised has the finding of that rule, with a screenshot as
\* evidence, has no "Page load error" finding, and ran every block of the
\* loop body to its end.
C17_LocateFailureTolerated ==
    \A i \in 1..Len(urls) :
        (Finished(i) /\ QueryRaised(i)) =>
            /\ \E k \in IssuesOf(i, RuleOfQuery(web[i].fault)) :
                  issues[k].shot_name # NoShot
            /\ IssuesOf(i, "Page load error") = {}
            /\ Past(i, "images")

---------------------------------------------------------------------------
(* C18 *)

\* The line height of the entry divided by its font size is below 1.2, a
\* line height that is not a number counting as 1.2 times the font size
RatioBelow(item) == 10 * line_height(item) < 12 * font_size(item)

\* C18: a visit has a "Tight line spacing" finding, of severity Low, only
\* when some entry of its style sample has a line height below 1.2 times
\* its font size.
C18_TightOnlyBelowRatio ==
    \A i \in 1..Len(urls) :
        LET ks == IssuesOf(i, "Tight line spacing")
        IN  /\ ks # {} => Some(web[i].styles, RatioBelow)
            /\ \A k \in ks : issues[k].severity = "Low"

---------------------------------------------------------------------------
(* C19 *)

\* C19: no visit has more than one "Link text not descriptive" finding,
\* whatever the number of anchors with a generic text on its page.
C19_OneLinkTextFinding ==
    \A i \in 1..Len(urls) :
        Cardinality(IssuesOf(i, "Link text not descriptive")) <= 1

---------------------------------------------------------------------------
(* C20 *)

\* C20: no visit has more than one "Form field missing label" finding,
\* whatever the number of forms and of unlabeled controls on its page.
C20_OneFormLabelFinding ==
    \A i \in 1..Len(urls) :
        Cardinality(IssuesOf(i, "Form field missing label")) <= 1

---------------------------------------------------------------------------
(* C21 *)

\* C21: every call of capture_rule_screenshot injects its overlay, takes the
\* screenshot and removes the overlay in that order (a file written by the
\* call shows the overlay of the call when the overlay script did not fail),
\* no '__scan_overlays__' container is in the document when the call
\* returns, and no screenshot shows a box injected by an earlier call.
C21_OverlayRemoved ==
    /\ \A n \in DOMAIN captures :
           /\ captures[n].left = <<>>
           /\ \A f \in files :
                  (f.name = captures[n].ret /\ captures[n].injected)
                      => f.overlays = captures[n].overlay
    /\ \A f \in files : f.stale = <<>>
    /\ pc \in Range(Steps) \cup {"except"} \cup AfterLoop => layers = <<>>

---------------------------------------------------------------------------
(* C22 *)

\* The place of a per-page finding in the evaluation of the loop body: the
\* blocks 1) to 13) in the order of the source, then the except clause.  In
\* block 5) the link-text finding of an anchor comes before the finding that
\* ends the loop over the anchors; of the two findings that end that loop,
\* and of the two findings that end the loop over the styles, a page has
\* one at most.
RuleRank(name) ==
    CASE name = "Page title not descriptive" -> 1
      [] name = "Missing H1 heading" -> 2
      [] name = "Multiple H1 headings" -> 3
      [] name = "Heading level skips" -> 4
      [] name = "Image alt text not meaningful" -> 5
      [] name = "Missing viewport meta" -> 6
      [] name = "No responsive media queries" -> 7
      [] name = "Link text not descriptive" -> 8
      [] name = "Empty or broken link" -> 9
      [] name = "Broken link detected" -> 10
      [] name = "Insufficient colour contrast" -> 11
      [] name = "Keyboard navigation inaccessible" -> 12
      [] name = "Elements removed from tab order" -> 13
      [] name = "Form field missing label" -> 14
      [] name = "Missing user feedback hooks" -> 15
      [] name = "Small font size" -> 16
      [] name = "Tight line spacing" -> 17
      [] name = "Slow page performance" -> 18
      [] name = "Broken image source" -> 19
      [] name = "Page load error" -> 20
      [] name = "Non-unique page title" -> 21
      [] name = "Inconsistent navigation" -> 22
      [] OTHER -> 0

CrossPageNames == {"Non-unique page title", "Inconsistent navigation"}

\* C22: at every moment of a scan, and so in the list run_scan returns, a
\* finding appended during the i-th visit carries the i-th URL, every
\* finding of a visit precedes every finding of a later visit, the findings
\* of one visit come in the order of rule evaluation, and the cross-page
\* findings come after every per-page finding, duplicate titles before
\* inconsistent navigation.
C22_FindingOrder ==
    /\ \A k \in DOMAIN issues :
           /\ RuleRank(issues[k].issue_name) > 0
           /\ owner[k] = 0 <=> issues[k].issue_name \in CrossPageNames
           /\ owner[k] > 0 => issues[k].link = urls[owner[k]]
    /\ \A k \in 1..(Len(issues) - 1) :
           /\ owner[k] > 0 /\ owner[k + 1] > 0 => owner[k] <= owner[k + 1]
           /\ owner[k] = 0 => owner[k + 1] = 0
           /\ owner[k] = owner[k + 1] =>
                  RuleRank(issues[k].issue_name) <= RuleRank(issues[k + 1].issue_name)

\* A returned list in which a page has a finding of low severity before one
\* of high severity, a later page has findings too, and cross-page findings
\* of both kinds close the list
C22_Witness ==
    /\ pc = "done"
    /\ \E j, k \in DOMAIN issues :
           /\ j < k /\ owner[j] = 1 /\ owner[k] = 1
           /\ issues[j].severity = "Low" /\ issues[k].severity = "High"
    /\ \E k \in DOMAIN issues : owner[k] = 2
    /\ \E j, k \in DOMAIN issues :
           /\ j < k
           /\ issues[j].issue_name = "Non-unique page title"
           /\ issues[k].issue_name = "Inconsistent navigation"

---------------------------------------------------------------------------
(* C23 *)

\* The visits that raised an exception of class Exception after the title
\* of the page was recorded
RaisedPastTitle ==
    {i \in DOMAIN urls :
        \E r \in raisedAt :
            /\ r[1] = i
            /\ r[2] # "interrupt"
            /\ Pos(StepOf(r[2])) > Pos("title")}

\* C23: the step of the except clause appends the "Page load error" finding
\* and leaves the findings appended so far, page_screenshots, the files,
\* title_map and nav_signatures as they are; a page that raised after its
\* title was recorded and shares a non-empty title with another page has a
\* "Non-unique page title" finding when run_scan returns.
C23_NoRollback ==
    /\ [][(pc = "except" /\ IsException(exc)) =>
             /\ issues' = Append(issues,
                              [issue_name |-> "Page load error", link |-> urls[idx],
                               desc |-> <<exc.msg>>, severity |-> "High",
                               shot_name |-> NoShot])
             /\ owner' = Append(owner, idx)
             /\ page_screenshots' = page_screenshots
             /\ files' = files
             /\ title_map' = title_map
             /\ nav_signatures' = nav_signatures]_vars
    /\ [](Returned =>
             \A i \in RaisedPastTitle :
                 /\ urls[i] \in Range(title_map.keys)
                 /\ SharesTitle(urls[i]) =>
                        CrossIssuesOf(urls[i], "Non-unique page title") # {})

\* A returned scan with a visit that raised after two findings of its own,
\* which it kept, and whose page is flagged for its shared title
C23_Witness ==
    /\ pc = "done"
    /\ \E i \in RaisedPastTitle :
           /\ Cardinality({k \in DOMAIN issues : owner[k] = i}) >= 3
           /\ IssuesOf(i, "Page load error") # {}
           /\ \E s \in Range(page_screenshots) : s[1] = urls[i]
           /\ CrossIssuesOf(urls[i], "Non-unique page title") # {}

---------------------------------------------------------------------------
(* C24 *)

\* The scanned URLs whose recorded title is empty: no <title>, an empty
\* one, or one of white space only
EmptyTitled == {u \in UrlSet : TitleVisits(u) # {} /\ RecordedTitle(u) = <<>>}

\* C24: a page whose recorded title is empty has no "Non-unique page title"
\* finding, at any moment of the scan and so in the list run_scan returns,
\* however many scanned pages have an empty title.
C24_EmptyTitleNotDuplicate ==
    \A u \in EmptyTitled :
        /\ u \in Range(title_map.keys)
        /\ title_map.val[u] = <<>>
        /\ CrossIssuesOf(u, "Non-unique page title") = {}

\* A returned scan of two pages, both recorded with an empty title, one
\* for want of a <title> and one for a <title> of white space, neither flagged
C24_Witness ==
    /\ pc = "done"
    /\ Cardinality(EmptyTitled) = 2
    /\ \E i, j \in DOMAIN urls :
           /\ ~web[i].title.present
           /\ web[j].title.present /\ web[j].title.str # <<>>
    /\ \A k \in DOMAIN issues : issues[k].issue_name # "Non-unique page title"

====
